---- MODULE Spec2Model ----
(***************************************************************************)
(* Model of es_grad_v2.2.py: the CEM / actor-critic co-training loop       *)
(* (__main__, lines 298-380) and the rollout function evaluate (lines      *)
(* 83-136).                                                                *)
(*                                                                         *)
(* The environment is a gym TimeLimit environment: an episode is the       *)
(* sequence of rewards it hands out, `done` is true at the last step of    *)
(* the episode, and no episode is longer than env._max_episode_steps.      *)
(* The observation of step t of an episode is modelled by t itself.        *)
(* Parameter vectors are named, not computed: the k-th candidate drawn by  *)
(* es.ask in generation g is <<"ea", g, k>>, the parameters of gradient    *)
(* actor i after v updates are <<"rl", i, v>>.                             *)
(***************************************************************************)
EXTENDS Integers, Sequences, FiniteSets, TLC

\* ---- run configuration (argparse, lines 206-249) and model bounds ----
pop_size == 2
n_grad == 2
n_episodes == 1
start_steps == 2
batch_size == 4
mem_size == 4
period == 3
max_steps == 6
max_episode_steps == 2
MaxReward == 1
MaxEpisodes == 2

VARIABLES
    pc,            \* position in the training loop
    total_steps, actor_steps, step_cpt,
    fitness_rl, fitness_ea, rl_params, ea_params,
    i,             \* index of the gradient actor being processed (line 313)
    actors,        \* actors[j]: number of updates applied to gradient actor j
    critic,        \* number of updates applied to the critic
    memory,        \* replay buffer contents, oldest first
    es_told,       \* arguments of the last es.tell
    df,            \* in-memory run log
    log_pkl,       \* log.pkl on disk
    saved,         \* checkpoint directories written so far
    gen,           \* number of generations started
    ts_start,      \* total_steps when the current generation started
    rollouts,      \* evaluate calls of the current generation, in call order
    updates,       \* update calls of the current generation, in call order
    ev_pc, ev_script, ev_memory, ev_out   \* a stand-alone evaluate call

loop_vars == <<pc, total_steps, actor_steps, step_cpt, fitness_rl, fitness_ea,
               rl_params, ea_params, i, actors, critic, memory, es_told, df,
               log_pkl, saved, gen, ts_start, rollouts, updates>>
eval_vars == <<ev_pc, ev_script, ev_memory, ev_out>>
vars == <<loop_vars, eval_vars>>

\* ---- helpers ----
RECURSIVE SumSeq(_)
SumSeq(s) == IF s = <<>> THEN 0 ELSE Head(s) + SumSeq(Tail(s))

\* np.mean of a list of integers, kept as an exact fraction; nan for an empty list
MeanAsSum(s) == IF s = <<>> THEN [nan |-> TRUE, num |-> 0, den |-> 1]
                ELSE [nan |-> FALSE, num |-> SumSeq(s), den |-> 1]
Mean(s) == IF s = <<>> THEN [nan |-> TRUE, num |-> 0, den |-> 1]
           ELSE [nan |-> FALSE, num |-> SumSeq(s), den |-> Len(s)]

\* ---- environment ----
Rewards == 0..MaxReward
Episodes == UNION { [1..n -> Rewards] : n \in 1..max_episode_steps }
Scripts(n) == [1..n -> Episodes]

\* ---- evaluate (lines 83-136) ----
\* line 116-117: steps is the step count of the whole call
DoneBool(steps, done) ==
    IF steps + 1 = max_episode_steps THEN 0 ELSE IF done THEN 1 ELSE 0

\* the `while not done` loop of one episode; t is the step about to be taken
RECURSIVE EpisodeSteps(_, _, _, _)
EpisodeSteps(rewards, t, st, useMem) ==
    LET reward == rewards[t]
        done == (t = Len(rewards))
        done_bool == DoneBool(st.steps, done)
        tr == [obs |-> t - 1, n_obs |-> t, reward |-> reward, done |-> done_bool]
        st1 == [score |-> st.score + reward,
                steps |-> st.steps + 1,
                added |-> IF useMem THEN Append(st.added, tr) ELSE st.added]
    IN IF done THEN st1 ELSE EpisodeSteps(rewards, t + 1, st1, useMem)

\* the `for _ in range(n_episodes)` loop
RECURSIVE EpisodeLoop(_, _, _, _)
EpisodeLoop(script, e, st, useMem) ==
    IF e > Len(script) THEN st
    ELSE LET r == EpisodeSteps(script[e], 1,
                     [score |-> 0, steps |-> st.steps, added |-> st.added], useMem)
         IN EpisodeLoop(script, e + 1,
                [scores |-> Append(st.scores, r.score),
                 steps |-> r.steps, added |-> r.added], useMem)

\* added: the tuples handed to memory.add, in call order
evaluate(script, useMem) ==
    LET r == EpisodeLoop(script, 1,
                 [scores |-> <<>>, steps |-> 0, added |-> <<>>], useMem)
    IN [f |-> Mean(r.scores), steps |-> r.steps, added |-> r.added]

\* ---- replay buffer (memory.Memory) ----
MemoryAdd(mem, tr) ==
    IF Len(mem) < mem_size THEN Append(mem, tr)
    ELSE IF mem_size = 0 THEN mem ELSE Append(Tail(mem), tr)

RECURSIVE MemoryAddAll(_, _)
MemoryAddAll(mem, trs) ==
    IF trs = <<>> THEN mem ELSE MemoryAddAll(MemoryAdd(mem, Head(trs)), Tail(trs))

\* ---- training loop (lines 298-380) ----
RlParams(j) == <<"rl", j, actors[j]>>
AskParams(g) == [k \in 1..pop_size |-> <<"ea", g, k>>]

\* line 303
LoopCondLe(ts) == ts <= max_steps
LoopCond(ts) == ts < max_steps

\* line 311
IsActiveGe(ts) == ts >= start_steps
IsActive(ts) == ts > start_steps

\* line 352
CombineFitnessRlFirst(fea, frl) == frl \o fea
CombineFitness(fea, frl) == fea \o frl

\* lines 353-354
CombineParams(pea, prl) == IF Len(prl) = 0 THEN pea ELSE pea \o prl

\* line 358
SaveDueGt(cpt) == cpt > period
SaveDue(cpt) == cpt >= period

\* np.mean of a list of means taken over the same number of episodes
MeanOfMeans(fs) ==
    IF fs = <<>> THEN Mean(<<>>)
    ELSE [nan |-> FALSE,
          num |-> SumSeq([k \in 1..Len(fs) |-> fs[k].num]),
          den |-> Len(fs) * fs[1].den]

\* np.max of a non-empty list of means over the same number of episodes
MaxFitness(fs) ==
    CHOOSE f \in {fs[k] : k \in 1..Len(fs)} :
        \A g \in {fs[k] : k \in 1..Len(fs)} : g.num <= f.num

\* the files of one checkpoint directory (lines 366-375)
CheckpointFiles ==
    {[role |-> "critic", idx |-> 0], [role |-> "actor_mu", idx |-> 0]}
        \cup {[role |-> "actor", idx |-> j] : j \in 0..(n_grad - 1)}

Tagged(trs, g) == [k \in 1..Len(trs) |-> [tr |-> trs[k], gen |-> g]]

\* number of buffer entries written by rollouts of generation g
FromGen(mem, g) == Cardinality({k \in 1..Len(mem) : mem[k].gen = g})

\* the state at line 302, before the first test of the while loop
LoopInit ==
    /\ pc = "while"
    /\ total_steps = 0 /\ actor_steps = 0 /\ step_cpt = 0
    /\ fitness_rl = <<>> /\ fitness_ea = <<>>
    /\ rl_params = <<>> /\ ea_params = <<>>
    /\ i = 0
    /\ actors = [j \in 0..(n_grad - 1) |-> 0]
    /\ critic = 0
    /\ memory = <<>>
    /\ es_told = [params |-> <<>>, fitness |-> <<>>]
    /\ df = <<>>
    /\ log_pkl = [exists |-> FALSE, records |-> <<>>]
    /\ saved = <<>>
    /\ gen = 0 /\ ts_start = 0
    /\ rollouts = <<>> /\ updates = <<>>

Init ==
    /\ LoopInit
    /\ ev_pc = "idle" /\ ev_script = <<>> /\ ev_memory = FALSE
    /\ ev_out = [f |-> Mean(<<>>), steps |-> 0, added |-> <<>>]

\* line 303: while total_steps < args.max_steps
LoopTest ==
    /\ pc = "while"
    /\ pc' = IF LoopCond(total_steps) THEN "ask" ELSE "exit"
    /\ UNCHANGED <<total_steps, actor_steps, step_cpt, fitness_rl, fitness_ea,
                   rl_params, ea_params, i, actors, critic, memory, es_told, df,
                   log_pkl, saved, gen, ts_start, rollouts, updates, eval_vars>>

\* lines 305-313: reset the lists, es.ask, and the WARMUP / ACTIVE test
Ask ==
    /\ pc = "ask"
    /\ fitness_rl' = <<>> /\ fitness_ea' = <<>> /\ rl_params' = <<>>
    /\ gen' = gen + 1
    /\ ea_params' = AskParams(gen + 1)
    /\ ts_start' = total_steps
    /\ rollouts' = <<>> /\ updates' = <<>>
    /\ i' = 0
    /\ pc' = IF IsActive(total_steps) /\ n_grad > 0 THEN "actor_update" ELSE "reset"
    /\ UNCHANGED <<total_steps, actor_steps, step_cpt, actors, critic, memory,
                   es_told, df, log_pkl, saved, eval_vars>>

\* lines 316-318: actors[i].update samples the buffer and steps the actor
ActorUpdate ==
    /\ pc = "actor_update"
    /\ updates' = Append(updates, [who |-> "actor", idx |-> i,
                                   mem_len |-> Len(memory),
                                   fresh |-> FromGen(memory, gen)])
    /\ actors' = [actors EXCEPT ![i] = @ + 1]
    /\ pc' = "critic_update"
    /\ UNCHANGED <<total_steps, actor_steps, step_cpt, fitness_rl, fitness_ea,
                   rl_params, ea_params, i, critic, memory, es_told, df,
                   log_pkl, saved, gen, ts_start, rollouts, eval_vars>>

\* lines 321-322: critic.update samples the buffer and steps the critic
CriticUpdate ==
    /\ pc = "critic_update"
    /\ updates' = Append(updates, [who |-> "critic", idx |-> i,
                                   mem_len |-> Len(memory),
                                   fresh |-> FromGen(memory, gen)])
    /\ critic' = critic + 1
    /\ pc' = "eval_rl"
    /\ UNCHANGED <<total_steps, actor_steps, step_cpt, fitness_rl, fitness_ea,
                   rl_params, ea_params, i, actors, memory, es_told, df,
                   log_pkl, saved, gen, ts_start, rollouts, eval_vars>>

\* lines 325-329: evaluate gradient actor i and record its parameters and fitness
EvalRL ==
    /\ pc = "eval_rl"
    /\ \E script \in Scripts(n_episodes) :
          LET r == evaluate(script, TRUE) IN
          /\ memory' = MemoryAddAll(memory, Tagged(r.added, gen))
          /\ actor_steps' = actor_steps + r.steps
          /\ rl_params' = Append(rl_params, RlParams(i))
          /\ fitness_rl' = Append(fitness_rl, r.f)
          /\ rollouts' = Append(rollouts, [params |-> RlParams(i), f |-> r.f,
                                           steps |-> r.steps])
    /\ i' = i + 1
    /\ pc' = IF i + 1 < n_grad THEN "actor_update" ELSE "reset"
    /\ UNCHANGED <<total_steps, step_cpt, fitness_ea, ea_params, actors, critic,
                   es_told, df, log_pkl, saved, gen, ts_start, updates, eval_vars>>

\* line 335: actor_steps = 0
ResetActorSteps ==
    /\ pc = "reset"
    /\ actor_steps' = 0
    /\ pc' = IF pop_size > 0 THEN "eval_ea" ELSE "counts"
    /\ UNCHANGED <<total_steps, step_cpt, fitness_rl, fitness_ea, rl_params,
                   ea_params, i, actors, critic, memory, es_told, df, log_pkl,
                   saved, gen, ts_start, rollouts, updates, eval_vars>>

\* lines 336-342: evaluate the next evolutionary candidate
EvalEA ==
    /\ pc = "eval_ea"
    /\ LET params == ea_params[Len(fitness_ea) + 1] IN
       \E script \in Scripts(n_episodes) :
          LET r == evaluate(script, TRUE) IN
          /\ memory' = MemoryAddAll(memory, Tagged(r.added, gen))
          /\ actor_steps' = actor_steps + r.steps
          /\ fitness_ea' = Append(fitness_ea, r.f)
          /\ rollouts' = Append(rollouts, [params |-> params, f |-> r.f,
                                           steps |-> r.steps])
    /\ pc' = IF Len(fitness_ea) + 1 < Len(ea_params) THEN "eval_ea" ELSE "counts"
    /\ UNCHANGED <<total_steps, step_cpt, fitness_rl, rl_params, ea_params, i,
                   actors, critic, es_told, df, log_pkl, saved, gen, ts_start,
                   updates, eval_vars>>

\* lines 348-349
UpdateCounts ==
    /\ pc = "counts"
    /\ total_steps' = total_steps + actor_steps
    /\ step_cpt' = step_cpt + actor_steps
    /\ pc' = "tell"
    /\ UNCHANGED <<actor_steps, fitness_rl, fitness_ea, rl_params, ea_params, i,
                   actors, critic, memory, es_told, df, log_pkl, saved, gen,
                   ts_start, rollouts, updates, eval_vars>>

\* lines 352-355
Tell ==
    /\ pc = "tell"
    /\ es_told' = [params |-> CombineParams(ea_params, rl_params),
                   fitness |-> CombineFitness(fitness_ea, fitness_rl)]
    /\ pc' = "save"
    /\ UNCHANGED <<total_steps, actor_steps, step_cpt, fitness_rl, fitness_ea,
                   rl_params, ea_params, i, actors, critic, memory, df, log_pkl,
                   saved, gen, ts_start, rollouts, updates, eval_vars>>

\* lines 358-378
Save ==
    /\ pc = "save"
    /\ IF SaveDue(step_cpt)
       THEN /\ log_pkl' = [exists |-> TRUE, records |-> df]
            /\ saved' = Append(saved, [dir |-> total_steps, files |-> CheckpointFiles])
            /\ df' = Append(df,
                   [total_steps |-> total_steps,
                    average_score_ea |-> MeanOfMeans(fitness_ea),
                    average_score_rl |-> MeanOfMeans(fitness_rl),
                    average_score |-> MeanOfMeans(es_told.fitness),
                    best_score |-> MaxFitness(es_told.fitness)])
            /\ step_cpt' = 0
       ELSE UNCHANGED <<log_pkl, saved, df, step_cpt>>
    /\ pc' = "while"
    /\ UNCHANGED <<total_steps, actor_steps, fitness_rl, fitness_ea, rl_params,
                   ea_params, i, actors, critic, memory, es_told, gen, ts_start,
                   rollouts, updates, eval_vars>>

Next ==
    \/ LoopTest
    \/ Ask
    \/ ActorUpdate
    \/ CriticUpdate
    \/ EvalRL
    \/ ResetActorSteps
    \/ EvalEA
    \/ UpdateCounts
    \/ Tell
    \/ Save

Spec == Init /\ [][Next]_vars

\* the loop is sequential code: a step that can be taken is taken
LiveSpec == Spec /\ WF_vars(Next)

\* ---- a stand-alone evaluate call with arbitrary arguments ----
\* memory=None or a buffer, any n_episodes in 1..MaxEpisodes, any environment run
EvalInit ==
    /\ LoopInit
    /\ ev_pc = "call"
    /\ ev_memory \in BOOLEAN
    /\ ev_script \in UNION { Scripts(n) : n \in 1..MaxEpisodes }
    /\ ev_out = [f |-> Mean(<<>>), steps |-> 0, added |-> <<>>]

EvalCall ==
    /\ ev_pc = "call"
    /\ ev_out' = evaluate(ev_script, ev_memory)
    /\ ev_pc' = "done"
    /\ UNCHANGED <<loop_vars, ev_script, ev_memory>>

EvalNext == EvalCall

EvalSpec == EvalInit /\ [][EvalNext]_vars

\* ======================= properties =======================

\* the generation in progress is ACTIVE: it started with total_steps > start_steps
StartedActive == ts_start > start_steps

\* env steps taken by the first n rollouts of the current generation
RECURSIVE StepsOf(_, _)
StepsOf(rs, n) == IF n = 0 THEN 0 ELSE rs[n].steps + StepsOf(rs, n - 1)

\* C1: at every es.tell the parameter list and the fitness list have the same
\* length (pop_size in WARMUP, pop_size + n_grad in ACTIVE), the candidates of
\* es.ask come first in ask order and the gradient actors after them in actor
\* order, and entry k of the fitness list is the return of the one rollout of
\* this generation that ran entry k of the parameter list.
C1_FusionOrder ==
    pc = "save" =>
        LET P == es_told.params
            F == es_told.fitness
            ng == IF StartedActive THEN n_grad ELSE 0
        IN /\ Len(P) = pop_size + ng
           /\ Len(F) = Len(P)
           /\ Len(rollouts) = Len(P)
           /\ \A k \in 1..pop_size :
                 /\ P[k] = ea_params[k]
                 /\ rollouts[ng + k].params = P[k]
                 /\ rollouts[ng + k].f = F[k]
           /\ \A j \in 1..ng :
                 /\ P[pop_size + j] = <<"rl", j - 1, actors[j - 1]>>
                 /\ rollouts[j].params = P[pop_size + j]
                 /\ rollouts[j].f = F[pop_size + j]
           /\ \A a, b \in 1..Len(rollouts) :
                 rollouts[a].params = rollouts[b].params => a = b

\* an ACTIVE generation whose first candidate and first gradient actor scored differently
C1_Witness ==
    /\ pc = "save"
    /\ StartedActive
    /\ Len(es_told.fitness) = pop_size + n_grad
    /\ es_told.fitness[1] # es_told.fitness[pop_size + 1]

\* the global position, in an evaluate call, of the step before episode e begins
RECURSIVE Offset(_, _)
Offset(script, e) == IF e <= 1 THEN 0 ELSE Len(script[e - 1]) + Offset(script, e - 1)

\* C2: in every evaluate call, the final transition of an episode that ran to
\* the environment's max-step limit carries done_flag 0, and the final
\* transition of an episode that ended earlier carries done_flag 1.
C2_TruncationFlag ==
    (ev_pc = "done" /\ ev_memory) =>
        \A e \in 1..Len(ev_script) :
            ev_out.added[Offset(ev_script, e) + Len(ev_script[e])].done =
                (IF Len(ev_script[e]) = max_episode_steps THEN 0 ELSE 1)

\* C3: the step that updates the counters adds to total_steps and to step_cpt
\* the env steps of all rollouts of the generation, gradient actors included.
C3_AllStepsCounted ==
    [][pc = "counts" =>
          /\ total_steps' = total_steps + StepsOf(rollouts, Len(rollouts))
          /\ step_cpt' = step_cpt + StepsOf(rollouts, Len(rollouts))]_vars

\* C4: at the end of a generation a checkpoint (critic, every gradient actor,
\* the policy of the engine's mean, one summary record) is written if and only
\* if step_cpt >= period, and step_cpt is 0 right after it; otherwise nothing
\* is persisted and step_cpt is kept. No other step of the loop persists anything.
C4_CheckpointCadence ==
    [][/\ (pc = "save" /\ step_cpt >= period) =>
             /\ saved' = Append(saved, [dir |-> total_steps, files |->
                    {[role |-> "critic", idx |-> 0], [role |-> "actor_mu", idx |-> 0]}
                    \cup {[role |-> "actor", idx |-> j] : j \in 0..(n_grad - 1)}])
             /\ Len(df') = Len(df) + 1
             /\ df'[Len(df')].total_steps = total_steps
             /\ step_cpt' = 0
       /\ (pc = "save" /\ step_cpt < period) =>
             UNCHANGED <<saved, df, log_pkl, step_cpt>>
       /\ pc # "save" => UNCHANGED <<saved, df, log_pkl>>]_vars

\* a checkpoint was written after a generation that wrote none
C4_Witness ==
    /\ pc = "while"
    /\ Len(saved) >= 1
    /\ gen > Len(saved)
    /\ step_cpt = 0

\* the update calls of the current generation are exactly one actor update and
\* one critic update for each of the n_grad actors
AllUpdated ==
    /\ Len(updates) = 2 * n_grad
    /\ \A j \in 0..(n_grad - 1) :
          /\ updates[2 * j + 1].who = "actor" /\ updates[2 * j + 1].idx = j
          /\ updates[2 * j + 2].who = "critic" /\ updates[2 * j + 2].idx = j

\* C5: a generation that starts with total_steps <= start_steps performs no
\* update; a generation that starts with total_steps > start_steps has updated
\* every gradient actor by the time of es.tell; and a generation that follows
\* an ACTIVE one is ACTIVE.
C5_WarmupThenActive ==
    /\ []((~StartedActive) => updates = <<>>)
    /\ []((StartedActive /\ pc \in {"counts", "tell", "save"}) => AllUpdated)
    /\ [][StartedActive => StartedActive']_vars

\* the third generation is ACTIVE and has updated its actors
C5_Witness ==
    /\ pc = "tell"
    /\ gen = 3
    /\ StartedActive
    /\ AllUpdated

\* C6: no actor or critic update is invoked (and so no sample is drawn) while
\* the buffer holds fewer than batch_size transitions.
C6_SkipOnSmallBuffer ==
    \A k \in 1..Len(updates) : updates[k].mem_len >= batch_size

\* C7: a generation starts only with total_steps < max_steps, the loop ends
\* with total_steps >= max_steps, and nothing happens after that.
C7_Terminates ==
    /\ [](pc = "ask" => total_steps < max_steps)
    /\ <>[](pc = "exit" /\ total_steps >= max_steps)
    /\ [][pc = "exit" => UNCHANGED loop_vars]_vars

\* the loop has ended after more than one generation
C7_Witness ==
    /\ pc = "exit"
    /\ total_steps >= max_steps
    /\ gen >= 2

\* C8: an evaluate call with a buffer hands it one transition per env step, in
\* step order; their number is the returned step count and the sum of the
\* episode lengths; the returned score is the mean of the per-episode reward
\* sums. Without a buffer nothing is handed over.
C8_EvaluateContract ==
    ev_pc = "done" =>
        LET n == Len(ev_script)
            total == Offset(ev_script, n) + Len(ev_script[n])
        IN /\ ev_out.steps = total
           /\ ~ev_out.f.nan
           /\ ev_out.f.den = n
           /\ ev_out.f.num = SumSeq([e \in 1..n |-> SumSeq(ev_script[e])])
           /\ ev_memory =>
                 /\ Len(ev_out.added) = total
                 /\ \A e \in 1..n : \A t \in 1..Len(ev_script[e]) :
                       LET tr == ev_out.added[Offset(ev_script, e) + t]
                       IN tr.obs = t - 1 /\ tr.n_obs = t /\ tr.reward = ev_script[e][t]
           /\ (~ev_memory) => ev_out.added = <<>>

\* a call with a buffer and two episodes of different length and return
C8_Witness ==
    /\ ev_pc = "done"
    /\ ev_memory
    /\ Len(ev_script) = 2
    /\ Len(ev_script[1]) # Len(ev_script[2])
    /\ SumSeq(ev_script[1]) # SumSeq(ev_script[2])
    /\ Len(ev_out.added) = ev_out.steps

\* C9: when an update runs, the buffer holds no transition of a rollout of the
\* current generation.
C9_NoFreshTransitions ==
    \A k \in 1..Len(updates) : updates[k].fresh = 0

\* C10: after the k-th checkpoint the log on disk holds k records, the last of
\* which carries the step count that names the k-th checkpoint directory.
C10_LogHoldsAllRecords ==
    Len(saved) >= 1 =>
        /\ log_pkl.exists
        /\ Len(log_pkl.records) = Len(saved)
        /\ log_pkl.records[Len(saved)].total_steps = saved[Len(saved)].dir

====
